---- MODULE Spec2Model ----
(***************************************************************************)
(* The inspection routes of redisboard's RedisServerAdmin                  *)
(* (src/src/redisboard/admin.py): the permission-gating wrapper built by   *)
(* get_urls.wrap, the inspect and inspect_key views it wraps, the          *)
(* post-render cleanup hook, and the store as another client may change it *)
(* while a key inspection is in flight.                                    *)
(***************************************************************************)
EXTENDS Integers, Sequences, FiniteSets, TLC

\* ------------------------------------------------------------------ bounds
MaxDb == 1
MaxKeys == 2
MaxThreshold == 3
MaxCursor == 1
MaxCount == 1
MaxParams == 2

DbIds == 0..MaxDb
Keys == {"k"}
ParamNames == {"match", "cursor"}
ParamValues == {"a"}

\* Python's None for the optional db argument of inspect (db ids are >= 0).
None == -1

SeqsUpTo(S, n) == UNION {[1..m -> S] : m \in 0..n}

\* request.GET: a QueryDict, the query string's (name, value) pairs in order.
QueryDicts == SeqsUpTo(ParamNames \X ParamValues, MaxParams)

\* request.GET.dict(): one entry per name, the last value given for it.
\* A dict is a set of <<name, value>> pairs with distinct names.
QueryDictDict(q) ==
    {<<q[i][1], q[i][2]>> : i \in {i \in DOMAIN q :
                                     \A j \in DOMAIN q : q[j][1] = q[i][1] => j <= i}}

DictKeys(d) == {p[1] : p \in d}

\* ------------------------------------------------------------------ stats
\* server.stats: falsy when the server cannot be reached, otherwise it holds
\* databases, a dict db id -> details with the key count under 'keys'.
DetailsSet == [keys : 0..MaxKeys]
DatabaseDicts == UNION {[S -> DetailsSet] : S \in SUBSET DbIds}
StatsSet == {[ok |-> FALSE, databases |-> <<>>]}
              \cup {[ok |-> TRUE, databases |-> m] : m \in DatabaseDicts}

Min(S) == CHOOSE x \in S : \A y \in S : x <= y

RECURSIVE SortedIds(_)
SortedIds(S) == IF S = {} THEN <<>> ELSE <<Min(S)>> \o SortedIds(S \ {Min(S)})

\* stats.databases.items(): the (id, details) pairs in the dict's order, the
\* order the server reports its databases in (ascending ids).
Items(m) ==
    LET ids == SortedIds(DOMAIN m)
    IN [i \in DOMAIN ids |-> <<ids[i], m[ids[i]]>>]

RECURSIVE SumKeys(_)
SumKeys(items) ==
    IF items = <<>> THEN 0
    ELSE Head(items)[2].keys + SumKeys(Tail(items))

\* structs.DBInfo(id, details, scan=False): one database summary. The code
\* stores the scan page in the scan attribute itself, replacing the flag; the
\* model keeps the flag and holds the page beside it (<<>> is no page).
DBInfo(id, details, scan) ==
    [id |-> id, details |-> details, scan |-> scan, page |-> <<>>, cursor |-> 0]

VARIABLES
    REDISBOARD_SCAN_COUNT,  \* the configured threshold
    store,                  \* the <<db, key>> pairs that exist in the server
    pc,                     \* where the request stands
    req,                    \* the request: view, permissions, route kwargs, GET
    connection,             \* "none", "open", "closed": server.connection
    calls,                  \* the store commands issued, in order
    databases,              \* inspect's databases list
    active,                 \* inspect's active: <<>> or <<i>>, databases[i]
    stats,                  \* inspect's stats
    idx,                    \* inspect's position in the loop over databases
    response,               \* what the wrapper returned / raised
    callbacks,              \* the response's post-render callbacks
    hook,                   \* outcome of the post-render callbacks
    inDbAtCheck             \* history: was the key in database db at the check

vars == <<REDISBOARD_SCAN_COUNT, store, pc, req, connection, calls, databases,
          active, stats, idx, response, callbacks, hook, inDbAtCheck>>

\* ---------------------------------------------------------------- requests
Views == {"inspect", "inspect_key", "template_view"}

\* The kwargs the routes hand to inspect: no db (cursor keeps its default 0),
\* db alone, or db and cursor.
InspectKwargs ==
    {[db |-> None, key |-> "", cursor |-> 0, count |-> 0]}
      \cup {[db |-> d, key |-> "", cursor |-> c, count |-> 0] :
               d \in DbIds, c \in 0..MaxCursor}

\* The kwargs the routes hand to inspect_key: db and key, with cursor and
\* count defaulting to 0.
InspectKeyKwargs ==
    {[db |-> d, key |-> k, cursor |-> c, count |-> n] :
        d \in DbIds, k \in Keys, c \in 0..MaxCursor, n \in 0..MaxCount}

RouteKwargs(view) ==
    IF view = "inspect" THEN InspectKwargs
    ELSE IF view = "inspect_key" THEN InspectKeyKwargs
    ELSE {[db |-> None, key |-> "", cursor |-> 0, count |-> 0]}

NoRequest ==
    [view |-> "none", found |-> FALSE, has_view_permission |-> FALSE,
     has_perm |-> FALSE, db |-> None, key |-> "", cursor |-> 0, count |-> 0,
     GET |-> <<>>]

Exceptions == {"Http404", "TypeError", "ConnectionError"}

\* A store command as the log keeps it. found is the store's answer about the
\* key in the database the command ran against (FALSE for a scan).
Command(op, db, key, cursor, count, kwargs, found) ==
    [op |-> op, db |-> db, key |-> key, cursor |-> cursor, count |-> count,
     kwargs |-> kwargs, found |-> found]

\* ----------------------------------------------------------------- wrapper
has_either_permission(has_view_permission, has_perm) ==
    has_view_permission \/ has_perm

\* The permission gate of the wrapper: the view permission on the server and
\* the redisboard.can_inspect permission, both.
has_inspect_permission(has_view_permission, has_perm) ==
    has_view_permission /\ has_perm

\* Where each wrapped view starts.
ViewEntry(view) ==
    IF view = "inspect" THEN "inspect"
    ELSE IF view = "inspect_key" THEN "inspect_key"
    ELSE "template_view"

\* partial(cleanup_connection, connection=connection.close): the callback is
\* bound to the connection's close method, not to the connection.
post_render_callback == [fn |-> "cleanup_connection", connection |-> "connection.close"]

wrapper_close_on_success(conn, result) ==
    IF result \in Exceptions THEN conn ELSE "closed"

\* The finally clause of the wrapper: the connection is closed whatever the
\* view returned or raised.
wrapper_finally(conn, result) == "closed"

\* cleanup_connection(response, connection): calls connection.close(). Given
\* a connection it closes it; given a bound method, which has no close
\* attribute, the call raises AttributeError and closes nothing.
cleanup_connection(arg, conn) ==
    IF arg = "connection"
    THEN [raised |-> "ok", connection |-> "closed"]
    ELSE [raised |-> "AttributeError", connection |-> conn]

Init ==
    /\ REDISBOARD_SCAN_COUNT \in 0..MaxThreshold
    /\ store = {}
    /\ pc = "idle"
    /\ req = NoRequest
    /\ connection = "none"
    /\ calls = <<>>
    /\ databases = <<>>
    /\ active = <<>>
    /\ stats = [ok |-> FALSE, databases |-> <<>>]
    /\ idx = 0
    /\ response = "none"
    /\ callbacks = <<>>
    /\ hook = "pending"
    /\ inDbAtCheck = "unchecked"

\* wrapper, up to the call of the view: the server is looked up (Http404 when
\* it is missing), the gate is checked, and only then is server.connection
\* obtained and the view entered; a denied request gets the forbidden response.
Request(view, found, hv, hp, kw, get) ==
    /\ pc = "idle"
    /\ req' = [view |-> view, found |-> found, has_view_permission |-> hv,
               has_perm |-> hp, db |-> kw.db, key |-> kw.key,
               cursor |-> kw.cursor, count |-> kw.count, GET |-> get]
    /\ IF ~found
       THEN /\ response' = "Http404"
            /\ pc' = "raised"
            /\ connection' = connection
       ELSE IF has_inspect_permission(hv, hp)
       THEN /\ connection' = "open"
            /\ pc' = ViewEntry(view)
            /\ response' = response
       ELSE /\ response' = "HttpResponseForbidden"
            /\ pc' = "returned"
            /\ connection' = connection
    /\ UNCHANGED <<REDISBOARD_SCAN_COUNT, store, calls, databases, active,
                   stats, idx, callbacks, hook, inDbAtCheck>>

\* wrapper, after the view returned or raised: a TemplateResponse gets the
\* post-render callback, and the finally clause closes the connection.
WrapperReturn ==
    /\ pc = "finally"
    /\ callbacks' = IF response = "TemplateResponse"
                    THEN Append(callbacks, post_render_callback)
                    ELSE callbacks
    /\ connection' = wrapper_finally(connection, response)
    /\ pc' = IF response \in Exceptions THEN "raised" ELSE "returned"
    /\ UNCHANGED <<REDISBOARD_SCAN_COUNT, store, req, calls, databases, active,
                   stats, idx, response, hook, inDbAtCheck>>

\* A wrapped view that returns a TemplateResponse whose rendering is deferred
\* (the case the wrapper's isinstance test is there for).
TemplateView ==
    /\ pc = "template_view"
    /\ response' = "TemplateResponse"
    /\ pc' = "finally"
    /\ UNCHANGED <<REDISBOARD_SCAN_COUNT, store, req, connection, calls,
                   databases, active, stats, idx, callbacks, hook, inDbAtCheck>>

RECURSIVE RunCallbacks(_, _)
RunCallbacks(cbs, st) ==
    IF cbs = <<>> \/ st.raised = "AttributeError" THEN st
    ELSE RunCallbacks(Tail(cbs), cleanup_connection(Head(cbs).connection, st.connection))

\* The framework renders a returned TemplateResponse after the wrapper has
\* returned it, and then runs its post-render callbacks in order.
RenderDeferred ==
    /\ pc = "returned"
    /\ response = "TemplateResponse"
    /\ LET st == RunCallbacks(callbacks, [raised |-> "ok", connection |-> connection])
       IN /\ hook' = st.raised
          /\ connection' = st.connection
    /\ pc' = "rendered"
    /\ UNCHANGED <<REDISBOARD_SCAN_COUNT, store, req, calls, databases, active,
                   stats, idx, response, callbacks, inDbAtCheck>>

\* ----------------------------------------------------------------- inspect
\* if stats: the summaries are built only when the stats are there.
stats_unguarded(st) == TRUE

stats_available(st) == st.ok

\* The summary of the one database asked for: the stats' entry when they list
\* it, a zero-key summary when they do not, scanned either way.
explicit_summary_unlisted_unscanned(st, db) ==
    IF db \in DOMAIN st.databases
    THEN DBInfo(db, st.databases[db], TRUE)
    ELSE DBInfo(db, [keys |-> 0], FALSE)

explicit_summary(st, db) ==
    IF db \in DOMAIN st.databases
    THEN DBInfo(db, st.databases[db], TRUE)
    ELSE DBInfo(db, [keys |-> 0], TRUE)

\* Whether every database is scanned when none is asked for: the sum of the
\* key counts of all databases is below the threshold.
scan_all_per_database(items, threshold) ==
    \A i \in DOMAIN items : items[i][2].keys < threshold

scan_all(items, threshold) == SumKeys(items) < threshold

\* inspect, from the stats to the databases list: nothing without stats; the
\* one database asked for; otherwise every database of the stats, all scanned
\* or none. active is <<>> (None) or <<1>>, the first entry of databases: the
\* code puts the same object in both.
select_databases(st, db, threshold) ==
    IF ~stats_available(st) THEN [active |-> <<>>, databases |-> <<>>]
    ELSE LET items == Items(st.databases)
         IN IF db # None
            THEN [active |-> <<1>>, databases |-> <<explicit_summary(st, db)>>]
            ELSE IF scan_all(items, threshold)
            THEN [active |-> <<>>,
                  databases |-> [i \in DOMAIN items |->
                                    DBInfo(items[i][1], items[i][2], TRUE)]]
            ELSE [active |-> <<>>,
                  databases |-> [i \in DOMAIN items |->
                                    DBInfo(items[i][1], items[i][2], FALSE)]]

\* server.display.scan(dbinfo.id, cursor=cursor, **request.GET.dict()): the
\* call's arguments. Python raises TypeError, before scan runs, when the
\* unpacked dict holds a name that is also given as a keyword: "cursor".
scan_call(dbinfo, cursor, get) ==
    [raises |-> "cursor" \in DictKeys(QueryDictDict(get)),
     db |-> dbinfo.id,
     cursor |-> cursor,
     kwargs |-> QueryDictDict(get)]

scan_rounds_until_done(next) == IF next # 0 THEN 2 ELSE 1

\* How often inspect scans one scan-enabled database: once, whatever cursor
\* the page returned.
scan_rounds(next) == 1

InspectStats(st) ==
    /\ pc = "inspect"
    /\ stats' = st
    /\ LET sel == select_databases(st, req.db, REDISBOARD_SCAN_COUNT)
       IN /\ databases' = sel.databases
          /\ active' = sel.active
    /\ idx' = 1
    /\ pc' = "scan"
    /\ UNCHANGED <<REDISBOARD_SCAN_COUNT, store, req, connection, calls,
                   response, callbacks, hook, inDbAtCheck>>

\* The cursor of a page the store returns: 0 when the scan is complete, a
\* continuation token when it is not.
NextCursors == {0, 1}

\* One round of the loop for a summary that has scan set. err is the store
\* failing the command; next is the cursor of the page it returns.
InspectScan(err, next) ==
    /\ pc = "scan"
    /\ idx <= Len(databases)
    /\ databases[idx].scan
    /\ LET dbinfo == databases[idx]
           call == scan_call(dbinfo, req.cursor, req.GET)
           cmd == Command("scan", call.db, "", call.cursor, 0, call.kwargs, FALSE)
       IN IF call.raises
          THEN /\ response' = "TypeError"
               /\ pc' = "finally"
               /\ UNCHANGED <<calls, databases, idx>>
          ELSE IF err
          THEN /\ response' = "ConnectionError"
               /\ pc' = "finally"
               /\ calls' = Append(calls, cmd)
               /\ UNCHANGED <<databases, idx>>
          ELSE /\ calls' = calls \o [r \in 1..scan_rounds(next) |-> cmd]
               /\ databases' = [databases EXCEPT ![idx] =
                                   [dbinfo EXCEPT !.page = <<[cursor |-> next]>>,
                                                  !.cursor = req.cursor]]
               /\ idx' = idx + 1
               /\ UNCHANGED <<pc, response>>
    /\ UNCHANGED <<REDISBOARD_SCAN_COUNT, store, req, connection, active, stats,
                   callbacks, hook, inDbAtCheck>>

\* One round of the loop for a summary that has scan unset.
InspectSkip ==
    /\ pc = "scan"
    /\ idx <= Len(databases)
    /\ ~databases[idx].scan
    /\ idx' = idx + 1
    /\ UNCHANGED <<REDISBOARD_SCAN_COUNT, store, pc, req, connection, calls,
                   databases, active, stats, response, callbacks, hook,
                   inDbAtCheck>>

\* render(request, 'redisboard/inspect.html', ...): an HttpResponse whose body
\* is produced on the spot.
InspectRender ==
    /\ pc = "scan"
    /\ idx > Len(databases)
    /\ response' = "HttpResponse"
    /\ pc' = "finally"
    /\ UNCHANGED <<REDISBOARD_SCAN_COUNT, store, req, connection, calls,
                   databases, active, stats, idx, callbacks, hook, inDbAtCheck>>

\* ------------------------------------------------------------- inspect_key
\* After server.connection.exists(key): not found ends the view.
inspect_key_check(found) == IF found THEN "fetch" ELSE "notfound"

\* display.keys(db, [key]) and display.value(db, key, cursor=, count=), each
\* issued once, with no second existence check.
key_fetch_commands(db, key, cursor, count, found) ==
    << Command("keys", db, key, 0, 0, {}, found),
       Command("value", db, key, cursor, count, {}, found) >>

inspect_key_response_rechecked(found) ==
    IF found THEN "HttpResponse" ELSE "HttpResponseNotFound"

\* What inspect_key returns once the fetches are done: the rendered page,
\* whether or not the key was still there when they ran.
inspect_key_response(found) == "HttpResponse"

\* server.connection.exists(key). The command carries no db: it runs against
\* connDb, the database the server's connection is bound to, whatever db the
\* route names.
InspectKeyExists(connDb, err) ==
    /\ pc = "inspect_key"
    /\ LET found == <<connDb, req.key>> \in store
       IN /\ calls' = Append(calls, Command("exists", connDb, req.key, 0, 0, {}, found))
          /\ IF err
             THEN /\ response' = "ConnectionError"
                  /\ pc' = "finally"
             ELSE IF inspect_key_check(found) = "notfound"
             THEN /\ response' = "HttpResponseNotFound"
                  /\ pc' = "finally"
             ELSE /\ response' = response
                  /\ pc' = "fetch"
    /\ inDbAtCheck' = IF <<req.db, req.key>> \in store THEN "present" ELSE "absent"
    /\ UNCHANGED <<REDISBOARD_SCAN_COUNT, store, req, connection, databases,
                   active, stats, idx, callbacks, hook>>

\* The stats and value fetches and the rendering of the page. failing is the
\* command the store fails (0: none); a failed command's exception leaves the
\* view.
InspectKeyFetch(failing) ==
    /\ pc = "fetch"
    /\ LET cmds == key_fetch_commands(req.db, req.key, req.cursor, req.count,
                                      <<req.db, req.key>> \in store)
       IN calls' = calls \o (IF failing = 0 THEN cmds ELSE SubSeq(cmds, 1, failing))
    /\ response' = IF failing = 0
                   THEN inspect_key_response(<<req.db, req.key>> \in store)
                   ELSE "ConnectionError"
    /\ pc' = "finally"
    /\ UNCHANGED <<REDISBOARD_SCAN_COUNT, store, req, connection, databases,
                   active, stats, idx, callbacks, hook, inDbAtCheck>>

\* ------------------------------------------------------------ other clients
\* Other clients of the server write and delete keys. Only a key inspection
\* reads keys, so their commands are modelled while one is in flight.
OtherClientSet(d, k) ==
    /\ pc \in {"inspect_key", "fetch"}
    /\ <<d, k>> \notin store
    /\ store' = store \cup {<<d, k>>}
    /\ UNCHANGED <<REDISBOARD_SCAN_COUNT, pc, req, connection, calls, databases,
                   active, stats, idx, response, callbacks, hook, inDbAtCheck>>

OtherClientDelete(d, k) ==
    /\ pc \in {"inspect_key", "fetch"}
    /\ <<d, k>> \in store
    /\ store' = store \ {<<d, k>>}
    /\ UNCHANGED <<REDISBOARD_SCAN_COUNT, pc, req, connection, calls, databases,
                   active, stats, idx, response, callbacks, hook, inDbAtCheck>>

Next ==
    \/ /\ pc = "idle"
       /\ \E view \in Views, found \in BOOLEAN, hv \in BOOLEAN, hp \in BOOLEAN,
             get \in QueryDicts :
             \E kw \in RouteKwargs(view) : Request(view, found, hv, hp, kw, get)
    \/ WrapperReturn
    \/ TemplateView
    \/ RenderDeferred
    \/ /\ pc = "inspect"
       /\ \E st \in StatsSet : InspectStats(st)
    \/ \E err \in BOOLEAN, next \in NextCursors : InspectScan(err, next)
    \/ InspectSkip
    \/ InspectRender
    \/ \E connDb \in DbIds, err \in BOOLEAN : InspectKeyExists(connDb, err)
    \/ \E failing \in 0..2 : InspectKeyFetch(failing)
    \/ \E d \in DbIds, k \in Keys : OtherClientSet(d, k)
    \/ \E d \in DbIds, k \in Keys : OtherClientDelete(d, k)

Spec == Init /\ [][Next]_vars

\* ------------------------------------------------------------------ claims
Done == {"returned", "raised", "rendered"}

\* The commands of one kind in the log.
CallsOf(op) == {i \in DOMAIN calls : calls[i].op = op}
ScansOf(db) == {i \in CallsOf("scan") : calls[i].db = db}

\* inspect has read the stats and built its databases list.
Selected == req.view = "inspect" /\ idx >= 1

RECURSIVE TotalKeys(_)
TotalKeys(m) ==
    IF DOMAIN m = {} THEN 0
    ELSE LET d == CHOOSE d \in DOMAIN m : TRUE
         IN m[d].keys + TotalKeys([e \in DOMAIN m \ {d} |-> m[e]])

\* C1: inspect with an explicit db and stats available builds exactly one
\* summary: its id is db, it is scanned, and its key count is the stats'
\* entry for db, or 0 when the stats do not list db; inspect then returns
\* nothing but the rendered page (an absent db is no error response).
C1_ExplicitDbOneSummary ==
    (Selected /\ req.db # None /\ stats.ok) =>
        /\ Len(databases) = 1
        /\ active = <<1>>
        /\ databases[1].id = req.db
        /\ databases[1].scan
        /\ databases[1].details.keys =
              IF req.db \in DOMAIN stats.databases
              THEN stats.databases[req.db].keys ELSE 0
        /\ (pc = "returned" => response = "HttpResponse")
        /\ (pc = "raised" => response \in {"TypeError", "ConnectionError"})

\* An explicit db the stats do not list, other databases holding keys, and
\* the page rendered with a zero-key summary that was scanned.
C1_Witness ==
    /\ Selected /\ stats.ok /\ req.db # None
    /\ req.db \notin DOMAIN stats.databases
    /\ TotalKeys(stats.databases) >= REDISBOARD_SCAN_COUNT
    /\ pc = "returned" /\ response = "HttpResponse"
    /\ databases[1].details.keys = 0
    /\ ScansOf(req.db) # {}

\* C2: inspect without a db and with stats available builds one summary per
\* database of the stats, all scanned when the total key count is below
\* REDISBOARD_SCAN_COUNT and none scanned when it is equal or above.
C2_TotalDecidesScan ==
    (Selected /\ req.db = None /\ stats.ok) =>
        /\ Len(databases) = Cardinality(DOMAIN stats.databases)
        /\ \A d \in DOMAIN stats.databases :
              \E i \in DOMAIN databases :
                 /\ databases[i].id = d
                 /\ databases[i].details = stats.databases[d]
        /\ active = <<>>
        /\ \A i \in DOMAIN databases :
              databases[i].scan <=>
                 (TotalKeys(stats.databases) < REDISBOARD_SCAN_COUNT)

\* Every database is below the threshold on its own, the total is not, and
\* no summary is scanned.
C2_Witness ==
    /\ Selected /\ req.db = None /\ stats.ok
    /\ Len(databases) >= 2
    /\ \A d \in DOMAIN stats.databases :
          /\ stats.databases[d].keys > 0
          /\ stats.databases[d].keys < REDISBOARD_SCAN_COUNT
    /\ TotalKeys(stats.databases) = REDISBOARD_SCAN_COUNT
    /\ \A i \in DOMAIN databases : ~databases[i].scan
    /\ pc = "returned"

C3_HookSucceeds == pc = "rendered" => hook = "ok"

\* C4 (as claimed): inspect_key returns not-found, with no stats fetch and no
\* value fetch, whenever the key is not in database db at the existence
\* check, and the rendered page when it is.
C4_NotFoundIffAbsentInDb ==
    (req.view = "inspect_key" /\ pc = "returned") =>
        /\ inDbAtCheck = "absent" =>
              /\ response = "HttpResponseNotFound"
              /\ CallsOf("keys") = {}
              /\ CallsOf("value") = {}
        /\ inDbAtCheck = "present" => response = "HttpResponse"

\* C5: a request the gate denies gets the forbidden response; the view is
\* not entered, no connection is obtained and no store command is issued.
C5_DeniedTouchesNothing ==
    (req.view # "none" /\ req.found
       /\ ~(req.has_view_permission /\ req.has_perm)) =>
        /\ pc = "returned"
        /\ response = "HttpResponseForbidden"
        /\ connection = "none"
        /\ calls = <<>>
        /\ databases = <<>>
        /\ idx = 0
        /\ inDbAtCheck = "unchecked"
        /\ callbacks = <<>>

\* A user with the view permission but without can_inspect was refused.
C5_Witness ==
    /\ req.view = "inspect_key" /\ req.found
    /\ req.has_view_permission /\ ~req.has_perm
    /\ response = "HttpResponseForbidden"

\* C6: once the wrapper has returned or let an exception out for a permitted
\* request, the connection it obtained is closed.
C6_ClosedOnEveryOutcome ==
    (req.found /\ req.has_view_permission /\ req.has_perm /\ pc \in Done) =>
        connection = "closed"

\* The view raised after issuing a command, and the connection is closed.
C6_Witness ==
    /\ req.found /\ req.has_view_permission /\ req.has_perm
    /\ pc = "raised" /\ response = "ConnectionError"
    /\ calls # <<>>
    /\ connection = "closed"

\* C7 (as claimed): a key that was in database db when the existence check
\* succeeded and is gone when the fetches run is reported as not found.
C7_VanishedIsNotFound ==
    (/\ req.view = "inspect_key" /\ pc = "returned"
     /\ inDbAtCheck = "present"
     /\ \E i \in CallsOf("exists") : calls[i].found
     /\ \E i \in CallsOf("keys") : ~calls[i].found) =>
        response = "HttpResponseNotFound"

\* C7 (amended): once the existence check has succeeded the request is never
\* reported as not found, whatever happens to the key; the existence check,
\* the stats fetch and the value fetch are issued at most once each, and a
\* returned response is the rendered page built from one fetch of each kind.
C7_VanishedStillRenders ==
    (req.view = "inspect_key" /\ \E i \in CallsOf("exists") : calls[i].found) =>
        /\ response # "HttpResponseNotFound"
        /\ Cardinality(CallsOf("exists")) = 1
        /\ Cardinality(CallsOf("keys")) <= 1
        /\ Cardinality(CallsOf("value")) <= 1
        /\ pc = "returned" =>
              /\ response = "HttpResponse"
              /\ Cardinality(CallsOf("keys")) = 1
              /\ Cardinality(CallsOf("value")) = 1

\* The key was in database db at the check, the check succeeded, the key was
\* gone when the fetches ran, and the page was rendered.
C7_Witness ==
    /\ req.view = "inspect_key" /\ pc = "returned"
    /\ inDbAtCheck = "present"
    /\ \E i \in CallsOf("exists") : calls[i].found /\ calls[i].db = req.db
    /\ \E i \in CallsOf("keys") : ~calls[i].found
    /\ \E i \in CallsOf("value") : ~calls[i].found
    /\ response = "HttpResponse"

\* C8: without stats inspect builds no summary and no active database, issues
\* no command, and returns the rendered page, whatever db, cursor and query
\* string it is given.
C8_NoStatsEmptyPage ==
    (Selected /\ ~stats.ok) =>
        /\ databases = <<>>
        /\ active = <<>>
        /\ calls = <<>>
        /\ pc \in {"scan", "finally", "returned"}
        /\ response \in {"none", "HttpResponse"}

\* No stats, an explicit db, a cursor, a query string naming cursor: the
\* page is rendered all the same.
C8_Witness ==
    /\ Selected /\ ~stats.ok
    /\ req.db # None /\ req.cursor # 0
    /\ \E i \in DOMAIN req.GET : req.GET[i][1] = "cursor"
    /\ pc = "returned" /\ response = "HttpResponse"

\* C9: every scan inspect issues is for a summary that has scan set and
\* carries that summary's id and the route's cursor; no database is scanned
\* twice; a summary the loop has passed was scanned exactly once, holds its
\* page and records the route's cursor when scan is set, and was not scanned
\* at all when scan is unset; a rendered page has passed every summary.
C9_OneScanPerEnabledSummary ==
    Selected =>
        /\ \A c \in CallsOf("scan") :
              /\ calls[c].cursor = req.cursor
              /\ \E i \in DOMAIN databases :
                    databases[i].id = calls[c].db /\ databases[i].scan
        /\ \A i \in DOMAIN databases :
              /\ Cardinality(ScansOf(databases[i].id)) <= 1
              /\ ~databases[i].scan =>
                    (ScansOf(databases[i].id) = {} /\ databases[i].page = <<>>)
              /\ (databases[i].scan /\ i < idx) =>
                    /\ Cardinality(ScansOf(databases[i].id)) = 1
                    /\ databases[i].page # <<>>
                    /\ databases[i].cursor = req.cursor
        /\ response = "HttpResponse" => idx = Len(databases) + 1

\* A page rendered from one scan at a non-zero cursor whose reply carried a
\* continuation cursor.
C9_Witness ==
    /\ Selected /\ pc = "returned" /\ response = "HttpResponse"
    /\ req.cursor # 0
    /\ Len(databases) = 1 /\ databases[1].scan
    /\ databases[1].page # <<>> /\ databases[1].page[1].cursor # 0
    /\ Cardinality(CallsOf("scan")) = 1

\* C10 (as claimed): whatever the names in the query string, an inspect that
\* has a scan-enabled summary and a store that answers returns the rendered
\* page, having scanned each such summary with the route's cursor and with
\* every name/value pair of the query string.
C10_FiltersForwarded ==
    (/\ Selected /\ pc \in Done /\ response # "ConnectionError"
     /\ \E i \in DOMAIN databases : databases[i].scan) =>
        /\ response = "HttpResponse"
        /\ \A i \in DOMAIN databases :
              databases[i].scan =>
                 \E c \in ScansOf(databases[i].id) :
                    /\ calls[c].cursor = req.cursor
                    /\ \A j \in DOMAIN req.GET : req.GET[j] \in calls[c].kwargs
                    /\ \A kv \in calls[c].kwargs :
                          \E j \in DOMAIN req.GET : req.GET[j] = kv

====
